---- MODULE Spec2Model ----
(***************************************************************************)
(* Model of SpeedsterRootOp.execute / _optimize / get_result               *)
(* (apps/accelerate/speedster/speedster/root_op.py) and of                 *)
(* PytorchBackendInferenceLearner.get_size / save                          *)
(* (nebullvm/operations/inference_learners/pytorch.py).                    *)
(*                                                                         *)
(* One SpeedsterRootOp instance is modelled.  execute is cut into the      *)
(* steps between which an exception can leave it; every step is one        *)
(* action.  Python's None is the empty sequence, Some(v) a one-element     *)
(* sequence.  A candidate is the pair (model, latency) of the tuple the    *)
(* optimizers return; the third component (metric drop) is only formatted  *)
(* into the log line and is left out.  A null model is NoModel.            *)
(***************************************************************************)
EXTENDS Integers, Sequences, FiniteSets, TLC

\* ------------------------------------------------------------------ bounds
MaxModels == 2       \* models a conversion returns
NumBackends == 2     \* backend attempts of one optimizer invocation
MaxCandidates == 2   \* cap on the candidates of one run
MaxLatency == 2      \* latencies are 1..MaxLatency
MaxSize == 3         \* byte sizes are 1..MaxSize

\* ------------------------------------------------------------------ values
None == <<>>
Some(v) == <<v>>
NoModel == 0

ThsArgs == {None, Some(-1), Some(0), Some(1)}
MetricArgs == {"None", "known", "unknown", "fn"}
ModelArgs == {"None", "model"}
DataArgs == {"None", "loader", "manager", "sequence", "iterable"}

Latencies == 1..MaxLatency
Attempts == {[ok |-> FALSE, null |-> FALSE, latency |-> 1]}
              \cup [ok : {TRUE}, null : BOOLEAN, latency : Latencies]

Sizes == 1..MaxSize
PickleOutcomes == [exc : {"none"}, size : Sizes]
                    \cup [exc : {"RuntimeError", "PicklingError"}, size : {0}]
\* A learner's self.model: whether it has a core_model attribute, and what
\* pickle.dumps does on it and on its core_model.
Learners == {l \in [has_core : BOOLEAN, model_pickle : PickleOutcomes,
                    core_pickle : PickleOutcomes] :
                ~l.has_core => l.core_pickle = [exc |-> "none", size |-> 1]}
NoResult == [kind |-> "none", size |-> 0, exc |-> "none"]

VARIABLES
    pc,                     \* the step execute is at: "idle" outside a call,
                            \* "done" when it is about to return or has raised
    fetch_model,            \* self.fetch_model_op.get_model()
    fetch_data,             \* self.fetch_data_op.get_data()
    data,                   \* self.data
    metric_drop_ths,        \* local metric_drop_ths
    metric,                 \* local metric
    tmp_dir,                \* TRUE while the TemporaryDirectory exists
    conversion_result,      \* self.conversion_op.get_result(): None or Some(n models)
    idx,                    \* position of the for loop over the conversion result
    optimized_models,       \* local optimized_models
    optimal_model,          \* self.optimal_model
    ths_arg,                \* the metric_drop_ths argument of the current (last) call
    outcome,                \* how the last call ended
    warned,                 \* the "No optimized model" warning of the last call
    trace,                  \* the stages the current (last) call has performed
    fc_ths,                 \* thresholds stored in FEEDBACK_COLLECTOR by this call
    opt_calls,              \* one record per optimizer invocation of this call
    assigned,               \* TRUE once this call has assigned self.optimal_model
    gs_pc,                  \* get_size: the step it is at
    gs_model,               \* the learner's self.model: what pickling it does
    gs_tmp,                 \* get_size: TRUE while its TemporaryDirectory exists
    gs_files,               \* get_size: the files save wrote in the last call
    gs_result               \* get_size: how the last call ended

execVars == <<pc, fetch_model, fetch_data, data, metric_drop_ths, metric,
              tmp_dir, conversion_result, idx,
              optimized_models, optimal_model, ths_arg, outcome, warned, trace,
              fc_ths, opt_calls, assigned>>
sizeVars == <<gs_pc, gs_model, gs_tmp, gs_files, gs_result>>
vars == <<execVars, sizeVars>>

\* The outcomes of k backend attempts of which at most room yield a candidate.
RECURSIVE AttemptSeqs(_, _)
AttemptSeqs(k, room) ==
    IF k = 0 THEN {<<>>}
    ELSE UNION {{<<a>> \o rest :
                    rest \in AttemptSeqs(k - 1, IF a.ok THEN room - 1 ELSE room)} :
                a \in {x \in Attempts : x.ok => room > 0}}

\* ------------------------------------------------------- pure operators

\* QUANTIZATION_METRIC_MAP.get(name): the mapped function, or None on a miss.
MetricMapGet(name) == IF name = "known" THEN "fn" ELSE "None"

\* Faulty variant of GateThs: only a negative threshold is disabled.
GateThsNegativeOnly(ths) == IF ths # None /\ ths[1] < 0 THEN None ELSE ths

\* metric_drop_ths after the gating of a call's arguments.
GateThs(ths) == IF ths # None /\ ths[1] <= 0 THEN None ELSE ths

\* metric after the gating: the default name is substituted when a positive
\* threshold comes without a metric, then a name is looked up in the map.
GateMetric(ths, m) ==
    LET named == IF ~(ths # None /\ ths[1] <= 0) /\ ths # None /\ m = "None"
                 THEN "known"   \* "numeric_precision", a key of the map
                 ELSE m
    IN IF named \in {"known", "unknown"} THEN MetricMapGet(named) ELSE named

\* The data normalisation of execute.  d is self.data as fetched; loader_ok is
\* whether DataManager.from_dataloader succeeds, hf the answer of
\* is_huggingface_data, hf_data what convert_hf_model returns as data, check_ok
\* the answer of check_input_data.  exc is the exception raised, or "none".
NormalizeData(d, loader_ok, hf, hf_data, check_ok) ==
    IF d = "loader" /\ ~loader_ok
    THEN [exc |-> "ValueError", data |-> d, hf |-> FALSE]
    ELSE LET d1 == IF d = "loader" THEN "manager" ELSE d IN
         IF d1 = "iterable"           \* self.data[0] on a non-subscriptable
         THEN [exc |-> "TypeError", data |-> d1, hf |-> FALSE]
         ELSE LET d2 == IF hf THEN hf_data ELSE d1 IN
              IF d2 = "manager"
              THEN [exc |-> "none", data |-> d2, hf |-> hf]
              ELSE IF check_ok
                   THEN [exc |-> "none", data |-> "manager", hf |-> hf]
                   ELSE [exc |-> "ValueError", data |-> d2, hf |-> hf]

\* One optimizer invocation: the backends are attempted in order, each attempt
\* yields one candidate or, when it fails, none; a failure is skipped.  created
\* is the number of candidates the run has created before.
RECURSIVE OptimizerResult(_, _)
OptimizerResult(attempts, created) ==
    IF attempts = <<>> THEN <<>>
    ELSE LET a == Head(attempts) IN
         IF a.ok
         THEN <<[model |-> IF a.null THEN NoModel ELSE created + 1,
                 latency |-> a.latency]>>
              \o OptimizerResult(Tail(attempts), created + 1)
         ELSE OptimizerResult(Tail(attempts), created)

Failures(attempts) == Cardinality({i \in DOMAIN attempts : ~attempts[i].ok})

\* Faulty variant of Merge: the result replaces the list instead of extending it.
MergeOverwrites(acc, result) == result

\* optimized_models += result
Merge(acc, result) == acc \o result

\* Faulty variant of LoopDone: the loop stops one model early.
LoopDoneEarly(i, n) == i >= n - 1

\* The for loop over the conversion result is over after model i of n.
LoopDone(i, n) == i >= n

\* Faulty variant of InsertByLatency: equal latencies are not kept in their order.
RECURSIVE InsertUnstable(_, _)
InsertUnstable(c, s) ==
    IF s = <<>> THEN <<c>>
    ELSE IF c.latency <= Head(s).latency THEN <<c>> \o s
         ELSE <<Head(s)>> \o InsertUnstable(c, Tail(s))

\* list.sort(key=lambda x: x[1], reverse=False): a stable sort by latency.
RECURSIVE InsertByLatency(_, _)
InsertByLatency(c, s) ==
    IF s = <<>> THEN <<c>>
    ELSE IF c.latency < Head(s).latency THEN <<c>> \o s
         ELSE <<Head(s)>> \o InsertByLatency(c, Tail(s))

\* Faulty variant of SortByLatency: the sort is descending (reverse=True).
RECURSIVE InsertDescending(_, _)
InsertDescending(c, s) ==
    IF s = <<>> THEN <<c>>
    ELSE IF c.latency > Head(s).latency THEN <<c>> \o s
         ELSE <<Head(s)>> \o InsertDescending(c, Tail(s))

RECURSIVE SortDescending(_)
SortDescending(s) ==
    IF s = <<>> THEN <<>>
    ELSE InsertDescending(s[Len(s)], SortDescending(SubSeq(s, 1, Len(s) - 1)))

RECURSIVE SortByLatency(_)
SortByLatency(s) ==
    IF s = <<>> THEN <<>>
    ELSE InsertByLatency(s[Len(s)], SortByLatency(SubSeq(s, 1, Len(s) - 1)))

\* optimized_models[0]
Best(sorted) == sorted[1]

\* Faulty variant of NoOptimizedModel: the null check of the best candidate is missing.
NoOptimizedModelLenOnly(sorted) == Len(sorted) < 1

\* len(optimized_models) < 1 or optimized_models[0][0] is None
NoOptimizedModel(sorted) == Len(sorted) < 1 \/ Best(sorted).model = NoModel

\* The TemporaryDirectory of the with statement after the block is left,
\* normally or by an exception.
TmpDirOnExit(held) == FALSE

\* Faulty variant of TmpDirOnException: the directory is removed on the normal path only.
TmpDirLeakedOnException(held) == held

TmpDirOnException(held) == FALSE

\* ------------------------------------------------------------------ Init
Init ==
    /\ pc = "idle"
    /\ fetch_model = "None"
    /\ fetch_data = "None"
    /\ data = "None"
    /\ metric_drop_ths = None
    /\ metric = "None"
    /\ tmp_dir = FALSE
    /\ conversion_result = None
    /\ idx = 0
    /\ optimized_models = <<>>
    /\ optimal_model = None
    /\ ths_arg = None
    /\ outcome = "none"
    /\ warned = FALSE
    /\ trace = <<>>
    /\ fc_ths = <<>>
    /\ opt_calls = <<>>
    /\ assigned = FALSE
    /\ gs_pc = "idle"
    /\ gs_model = [has_core |-> FALSE,
                   model_pickle |-> [exc |-> "none", size |-> 1],
                   core_pickle |-> [exc |-> "none", size |-> 1]]
    /\ gs_tmp = FALSE
    /\ gs_files = <<>>
    /\ gs_result = NoResult

\* --------------------------------------------------------------- execute

\* execute is entered: the fetch operations run unless they already hold a
\* model / data, and the block is skipped when either is missing.  An
\* argument the fetch operation does not read is not enumerated; the
\* optimization_time and the ignore lists are taken to be valid.
Call(m, d, t, mt) ==
    /\ pc = "idle"
    /\ fetch_model # "None" => m = fetch_model
    /\ fetch_data # "None" => d = fetch_data
    /\ LET fm == IF fetch_model = "None" THEN m ELSE fetch_model
           fd == IF fetch_data = "None" THEN d ELSE fetch_data
           available == fm # "None" /\ fd # "None"
       IN /\ fetch_model' = fm
          /\ fetch_data' = fd
          /\ data' = IF available THEN fd ELSE data
          /\ pc' = IF available THEN "normalize" ELSE "done"
          /\ outcome' = IF available THEN "running" ELSE "returned"
    /\ ths_arg' = t
    /\ metric_drop_ths' = t
    /\ metric' = mt
    /\ tmp_dir' = FALSE
    /\ conversion_result' = None
    /\ idx' = 0
    /\ optimized_models' = <<>>
    /\ warned' = FALSE
    /\ trace' = <<"fetch">>
    /\ fc_ths' = <<>>
    /\ opt_calls' = <<>>
    /\ assigned' = FALSE
    /\ UNCHANGED <<optimal_model, sizeVars>>

\* The data is brought to a DataManager, or the call raises.
Normalize(loader_ok, hf, hf_data, check_ok) ==
    /\ pc = "normalize"
    /\ LET r == NormalizeData(data, loader_ok, hf, hf_data, check_ok)
       IN /\ data' = r.data
          /\ pc' = IF r.exc = "none" THEN "gate" ELSE "done"
          /\ outcome' = IF r.exc = "none" THEN outcome ELSE r.exc
    /\ trace' = Append(trace, "data")
    /\ UNCHANGED <<fetch_model, fetch_data, metric_drop_ths, metric, tmp_dir,
                   conversion_result, idx, optimized_models, optimal_model,
                   ths_arg, warned, fc_ths, opt_calls, assigned, sizeVars>>

\* The threshold is gated and the metric resolved.
Gate ==
    /\ pc = "gate"
    /\ metric_drop_ths' = GateThs(metric_drop_ths)
    /\ metric' = GateMetric(metric_drop_ths, metric)
    /\ pc' = "extract"
    /\ trace' = Append(trace, "gate")
    /\ UNCHANGED <<fetch_model, fetch_data, data,
                   tmp_dir, conversion_result, idx, optimized_models,
                   optimal_model, ths_arg, outcome, warned, fc_ths, opt_calls,
                   assigned, sizeVars>>

\* extract_info_from_data, self.data.split, FEEDBACK_COLLECTOR.start_collection
Extract ==
    /\ pc = "extract"
    /\ pc' = "baseline"
    /\ trace' = trace \o <<"extract", "split">>
    /\ UNCHANGED <<fetch_model, fetch_data, data, metric_drop_ths, metric,
                   tmp_dir, conversion_result, idx,
                   optimized_models, optimal_model, ths_arg, outcome, warned,
                   fc_ths, opt_calls, assigned, sizeVars>>

\* The original model is benchmarked and its result stored in the collector;
\* an error of the measure leaves execute.
Baseline(ok) ==
    /\ pc = "baseline"
    /\ trace' = Append(trace, "baseline")
    /\ IF ok
       THEN /\ fc_ths' = Append(fc_ths, metric_drop_ths)
            /\ pc' = "convert"
            /\ outcome' = outcome
       ELSE /\ fc_ths' = fc_ths
            /\ pc' = "done"
            /\ outcome' = "Error"
    /\ UNCHANGED <<fetch_model, fetch_data, data, metric_drop_ths, metric,
                   tmp_dir, conversion_result, idx,
                   optimized_models, optimal_model, ths_arg, warned, opt_calls,
                   assigned, sizeVars>>

\* The with block is entered and the model converted.  r is None or Some(n)
\* for a result of n models.  With no result the block is left at once.
Convert(r) ==
    /\ pc = "convert"
    /\ trace' = Append(trace, "convert")
    /\ optimized_models' = <<>>
    /\ conversion_result' = r
    /\ IF r = None
       THEN /\ tmp_dir' = TmpDirOnExit(TRUE)
            /\ idx' = idx
            /\ pc' = "select"
       ELSE /\ tmp_dir' = TRUE
            /\ idx' = 1
            /\ pc' = "optimize"
    /\ UNCHANGED <<fetch_model, fetch_data, data, metric_drop_ths, metric,
                   optimal_model, ths_arg, outcome,
                   warned, fc_ths, opt_calls, assigned, sizeVars>>

\* The conversion raises inside the with block.
ConvertRaises ==
    /\ pc = "convert"
    /\ trace' = Append(trace, "convert")
    /\ tmp_dir' = TmpDirOnException(TRUE)
    /\ pc' = "done"
    /\ outcome' = "Error"
    /\ UNCHANGED <<fetch_model, fetch_data, data, metric_drop_ths, metric,
                   conversion_result, idx,
                   optimized_models, optimal_model, ths_arg, warned, fc_ths,
                   opt_calls, assigned, sizeVars>>

\* _optimize on model idx of the conversion result: the optimizer runs its
\* backends and its result is added to optimized_models.
Optimize(attempts) ==
    /\ pc = "optimize"
    /\ LET result == OptimizerResult(attempts, Len(optimized_models))
       IN /\ Len(optimized_models) + Len(result) <= MaxCandidates
          /\ optimized_models' = Merge(optimized_models, result)
          /\ opt_calls' = Append(opt_calls,
                 [metric_drop_ths |-> metric_drop_ths, metric |-> metric,
                  failures |-> Failures(attempts), result |-> result])
    /\ trace' = Append(trace, "optimize")
    /\ IF LoopDone(idx, conversion_result[1])
       THEN /\ tmp_dir' = TmpDirOnExit(tmp_dir)
            /\ pc' = "select"
            /\ idx' = idx
       ELSE /\ tmp_dir' = tmp_dir
            /\ pc' = "optimize"
            /\ idx' = idx + 1
    /\ UNCHANGED <<fetch_model, fetch_data, data, metric_drop_ths, metric,
                   conversion_result, optimal_model,
                   ths_arg, outcome, warned, fc_ths, assigned, sizeVars>>

\* One pass of the for loop, over the outcomes the backends can have within
\* the cap on the candidates of a run.
OptimizeModel ==
    \E attempts \in AttemptSeqs(NumBackends, MaxCandidates - Len(optimized_models)) :
        Optimize(attempts)

\* The optimizer invocation on model idx raises: nothing in execute or
\* _optimize catches it, the with block is left by the exception.
OptimizeRaises ==
    /\ pc = "optimize"
    /\ trace' = Append(trace, "optimize")
    /\ tmp_dir' = TmpDirOnException(tmp_dir)
    /\ pc' = "done"
    /\ outcome' = "Error"
    /\ UNCHANGED <<fetch_model, fetch_data, data, metric_drop_ths, metric,
                   conversion_result, idx,
                   optimized_models, optimal_model, ths_arg, warned, fc_ths,
                   opt_calls, assigned, sizeVars>>

\* The candidates are sorted in place; with none, or a null best one, the
\* warning is logged and execute returns.
Select ==
    /\ pc = "select"
    /\ LET sorted == SortByLatency(optimized_models)
       IN /\ optimized_models' = sorted
          /\ IF NoOptimizedModel(sorted)
             THEN /\ warned' = TRUE
                  /\ pc' = "done"
                  /\ outcome' = "returned"
             ELSE /\ warned' = warned
                  /\ pc' = "report"
                  /\ outcome' = outcome
    /\ trace' = Append(trace, "select")
    /\ UNCHANGED <<fetch_model, fetch_data, data, metric_drop_ths, metric,
                   tmp_dir, conversion_result, idx,
                   optimal_model, ths_arg, fc_ths, opt_calls, assigned, sizeVars>>

\* The results are logged, which asks the best model for its size, and the
\* best model is stored (for a HuggingFace model inside a wrapper that holds
\* it as its core learner; optimal_model is that core).  An exception of the
\* logging (get_size propagates some) leaves execute before the store.
Report(ok) ==
    /\ pc = "report"
    /\ trace' = Append(trace, "report")
    /\ pc' = "done"
    /\ IF ok
       THEN /\ optimal_model' = Some(Best(optimized_models).model)
            /\ assigned' = TRUE
            /\ outcome' = "returned"
       ELSE /\ optimal_model' = optimal_model
            /\ assigned' = assigned
            /\ outcome' = "Error"
    /\ UNCHANGED <<fetch_model, fetch_data, data, metric_drop_ths, metric,
                   tmp_dir, conversion_result, idx,
                   optimized_models, ths_arg, warned, fc_ths, opt_calls, sizeVars>>

\* The frame of execute is left: its locals are gone, the attributes of the
\* instance and the record of how the call ended stay.
Return ==
    /\ pc = "done"
    /\ pc' = "idle"
    /\ metric_drop_ths' = None
    /\ metric' = "None"
    /\ idx' = 0
    /\ optimized_models' = <<>>
    /\ ths_arg' = None
    /\ trace' = <<>>
    /\ fc_ths' = <<>>
    /\ opt_calls' = <<>>
    /\ UNCHANGED <<fetch_model, fetch_data, data, tmp_dir, conversion_result,
                   optimal_model, outcome, warned, assigned, sizeVars>>

\* get_result()
get_result == optimal_model

Next ==
    \/ \E m \in ModelArgs, d \in DataArgs, t \in ThsArgs, mt \in MetricArgs :
          Call(m, d, t, mt)
    \/ \E loader_ok \in BOOLEAN, hf \in BOOLEAN,
          hf_data \in {"manager", "sequence"}, check_ok \in BOOLEAN :
          Normalize(loader_ok, hf, hf_data, check_ok)
    \/ Gate
    \/ Extract
    \/ \E ok \in BOOLEAN : Baseline(ok)
    \/ \E r \in {None} \cup {Some(n) : n \in 1..MaxModels} : Convert(r)
    \/ ConvertRaises
    \/ OptimizeModel
    \/ OptimizeRaises
    \/ Select
    \/ \E ok \in BOOLEAN : Report(ok)
    \/ Return

Spec == Init /\ [][Next]_vars

\* -------------------------------------------------------------- get_size

\* What the try block of get_size pickles: core_model when the model has one.
PickleTarget(model) ==
    IF model.has_core THEN model.core_pickle ELSE model.model_pickle

\* The except clause of get_size.
Caught(exc) == exc = "RuntimeError"

RECURSIVE SumSizes(_)
SumSizes(files) ==
    IF files = <<>> THEN 0
    ELSE (IF Head(files).regular THEN Head(files).size ELSE 0) + SumSizes(Tail(files))

\* What save has written when it ends: the metadata file, then the scripted
\* model; failed names the write that raised, or is "none".
SavedFiles(meta, model, failed) ==
    IF failed = "metadata" THEN <<>>
    ELSE IF failed = "model"
         THEN <<[name |-> "metadata", size |-> meta, regular |-> TRUE]>>
         ELSE <<[name |-> "metadata", size |-> meta, regular |-> TRUE],
                [name |-> "model_scripted.pt", size |-> model, regular |-> TRUE]>>

\* get_size is called: the model is pickled in memory; a caught exception
\* opens the temporary directory of the fallback, any other one propagates.
GetSize ==
    /\ gs_pc \in {"idle", "done"}
    /\ gs_files' = <<>>
    /\ LET p == PickleTarget(gs_model)
       IN IF p.exc = "none"
          THEN /\ gs_result' = [kind |-> "return", size |-> p.size, exc |-> "none"]
               /\ gs_pc' = "done"
               /\ gs_tmp' = FALSE
          ELSE IF Caught(p.exc)
               THEN /\ gs_result' = NoResult
                    /\ gs_pc' = "fallback"
                    /\ gs_tmp' = TRUE
               ELSE /\ gs_result' = [kind |-> "raise", size |-> 0, exc |-> p.exc]
                    /\ gs_pc' = "done"
                    /\ gs_tmp' = FALSE
    /\ UNCHANGED <<gs_model, execVars>>

\* self.save(tmp_dir) in the fallback; an exception of save leaves the with
\* block and get_size.
Save(meta, model, failed) ==
    /\ gs_pc = "fallback"
    /\ gs_files' = SavedFiles(meta, model, failed)
    /\ IF failed = "none"
       THEN /\ gs_pc' = "sum"
            /\ gs_tmp' = gs_tmp
            /\ gs_result' = gs_result
       ELSE /\ gs_pc' = "done"
            /\ gs_tmp' = FALSE
            /\ gs_result' = [kind |-> "raise", size |-> 0, exc |-> "SaveError"]
    /\ UNCHANGED <<gs_model, execVars>>

\* The sizes of the regular files of the directory are summed and returned;
\* the with block is left.
SumFiles ==
    /\ gs_pc = "sum"
    /\ gs_result' = [kind |-> "return", size |-> SumSizes(gs_files), exc |-> "none"]
    /\ gs_tmp' = FALSE
    /\ gs_pc' = "done"
    /\ UNCHANGED <<gs_model, gs_files, execVars>>

InitSize ==
    /\ gs_model \in Learners
    /\ gs_pc = "idle" /\ gs_tmp = FALSE /\ gs_files = <<>> /\ gs_result = NoResult
    /\ pc = "idle" /\ fetch_model = "None" /\ fetch_data = "None" /\ data = "None"
    /\ metric_drop_ths = None /\ metric = "None" /\ tmp_dir = FALSE
    /\ conversion_result = None /\ idx = 0 /\ optimized_models = <<>>
    /\ optimal_model = None /\ ths_arg = None /\ outcome = "none"
    /\ warned = FALSE /\ trace = <<>> /\ fc_ths = <<>> /\ opt_calls = <<>>
    /\ assigned = FALSE

NextSize ==
    \/ GetSize
    \/ \E meta \in Sizes, model \in Sizes, failed \in {"none", "metadata", "model"} :
          Save(meta, model, failed)
    \/ SumFiles

SpecSize == InitSize /\ [][NextSize]_vars

\* ------------------------------------------------------- claim helpers

Range(s) == {s[i] : i \in DOMAIN s}

\* The candidates of the run in submission order: the result lists of the
\* optimizer invocations, concatenated in the order of the invocations.
RECURSIVE ConcatResults(_)
ConcatResults(calls) ==
    IF calls = <<>> THEN <<>>
    ELSE ConcatResults(SubSeq(calls, 1, Len(calls) - 1)) \o calls[Len(calls)].result

Merged == ConcatResults(opt_calls)

MinLatency(s) == CHOOSE l \in {s[i].latency : i \in DOMAIN s} :
                     \A i \in DOMAIN s : l <= s[i].latency

\* The earliest position of s that holds the minimum latency.
EarliestMin(s) == CHOOSE i \in DOMAIN s :
                      /\ s[i].latency = MinLatency(s)
                      /\ \A j \in DOMAIN s : s[j].latency = MinLatency(s) => i <= j

\* The multiset of a list of candidates.
Count(s, c) == Cardinality({i \in DOMAIN s : s[i] = c})
SameCandidates(s, t) ==
    /\ Len(s) = Len(t)
    /\ \A c \in Range(s) \cup Range(t) : Count(s, c) = Count(t, c)

Occurrences(stage) == Cardinality({i \in DOMAIN trace : trace[i] = stage})

\* The selection step of the current call has happened.
Selected == "select" \in Range(trace)

\* Every occurrence of stage b comes after an occurrence of stage a.
Before(a, b) ==
    \A j \in DOMAIN trace : trace[j] = b => \E i \in 1..(j - 1) : trace[i] = a

\* No occurrence of stage a comes after an occurrence of stage b.
NeverAfter(a, b) ==
    \A i \in DOMAIN trace, j \in DOMAIN trace : (trace[i] = b /\ trace[j] = a) => j < i

\* ------------------------------------------------------------------ claims

C2_NoCandidateWarnsAndReturns ==
    (Selected /\ (optimized_models = <<>> \/ optimized_models[1].model = NoModel))
        => /\ pc = "done"
           /\ outcome = "returned"
           /\ warned
           /\ ~assigned
           /\ "report" \notin Range(trace)

\* C2 witness: a call on an instance that already holds an optimal model ends
\* with the warning because its fastest candidate has a null model, though
\* another candidate has a model.
C2_Witness ==
    /\ pc = "done" /\ warned /\ outcome = "returned"
    /\ Len(optimized_models) >= 2
    /\ optimized_models[1].model = NoModel
    /\ optimized_models[2].model # NoModel
    /\ get_result # None

\* C3: when the metric is a name that is not a key of the metric map, execute
\* stops with an error at the metric resolution, before any later stage.
C3_UnknownMetricFailsFast ==
    [][(pc = "gate" /\ metric = "unknown")
          => (pc' = "done" /\ outcome' \notin {"running", "returned"}
              /\ "extract" \notin Range(trace'))]_vars

C5_MalformedDataRaisesValueError ==
    (pc = "done" /\ trace = <<"fetch", "data">>)
        => /\ outcome = "ValueError"
           /\ ~assigned

\* C6: the temporary directory exists only inside the with block: never
\* during the selection, the report, or once execute has ended.
C6_TmpDirReleased ==
    tmp_dir => pc = "optimize"

\* C6 witness: an optimizer invocation raised after an earlier one had
\* returned, and the directory is gone.
C6_Witness ==
    /\ pc = "done" /\ outcome = "Error"
    /\ trace[Len(trace)] = "optimize"
    /\ opt_calls # <<>>
    /\ ~tmp_dir

\* C7: when the metric_drop_ths argument is a number <= 0, every threshold
\* stored in the feedback collector and passed to an optimizer is None.
C7_NonPositiveThresholdDisabled ==
    (ths_arg # None /\ ths_arg[1] <= 0)
        => /\ \A i \in DOMAIN fc_ths : fc_ths[i] = None
           /\ \A i \in DOMAIN opt_calls : opt_calls[i].metric_drop_ths = None

\* C7 witness: a call with threshold 0 and a metric function has stored the
\* baseline and invoked an optimizer.
C7_Witness ==
    /\ ths_arg = Some(0)
    /\ metric = "fn"
    /\ fc_ths # <<>>
    /\ opt_calls # <<>>

\* C8: whenever pickling the model in memory fails, get_size does not
\* propagate the failure: it returns the sum of the sizes of the files save
\* wrote, and its temporary directory is gone when it ends (a failure of
\* save itself set aside).
C8_SerializationFailureFallsBack ==
    (gs_pc = "done" /\ PickleTarget(gs_model).exc # "none"
        /\ gs_result.exc # "SaveError")
        => /\ gs_result.kind = "return"
           /\ gs_result.size = SumSizes(gs_files)
           /\ gs_files # <<>>
           /\ ~gs_tmp

\* C8 restricted to the exception the code catches: after a RuntimeError of
\* the pickling and a save that worked, get_size returns the sum of the file
\* sizes and the directory is gone.
C8_RuntimeErrorFallsBack ==
    (gs_pc = "done" /\ PickleTarget(gs_model).exc = "RuntimeError"
        /\ gs_result.exc # "SaveError")
        => /\ gs_result.kind = "return"
           /\ gs_result.size = SumSizes(gs_files)
           /\ gs_files # <<>>
           /\ ~gs_tmp

\* C9 (as stated): the stages run in the order fetch, data, convert,
\* baseline, optimize, select.
C9_ConverterBeforeBaseline ==
    /\ Before("fetch", "data")
    /\ Before("data", "convert")
    /\ Before("convert", "baseline")
    /\ Before("baseline", "optimize")
    /\ Before("convert", "select")

\* C9 (amended): the stages run in the order fetch, data, baseline, convert,
\* optimize, select: each stage comes after the one before it and never
\* again after the next one, and the selection comes only when every model
\* of the conversion result has had its optimizer invocation.
C9_StagesInOrder ==
    /\ Before("fetch", "data")
    /\ Before("data", "baseline")
    /\ Before("baseline", "convert")
    /\ Before("convert", "optimize")
    /\ Before("convert", "select")
    /\ NeverAfter("data", "baseline")
    /\ NeverAfter("baseline", "convert")
    /\ NeverAfter("convert", "optimize")
    /\ NeverAfter("optimize", "select")
    /\ (Selected /\ conversion_result # None)
          => Occurrences("optimize") = conversion_result[1]

\* C9 witness: the selection has happened after two optimizer invocations.
C9_Witness ==
    /\ Selected
    /\ conversion_result = Some(2)
    /\ Occurrences("optimize") = 2
    /\ Occurrences("baseline") = 1

\* C10: the list handed to the sort is the concatenation of the invocations'
\* result lists in invocation order, and the candidate the sort puts first,
\* which is the one stored when it has a model, is the earliest of that list
\* among those with the minimum latency.
C10_StableSelection ==
    /\ pc \in {"optimize", "select"} => optimized_models = Merged
    /\ (Selected /\ Merged # <<>>)
          => optimized_models[1] = Merged[EarliestMin(Merged)]
    /\ (pc = "done" /\ assigned)
          => get_result = Some(Merged[EarliestMin(Merged)].model)

\* C10 witness: two candidates of different invocations share the minimum
\* latency and the one of the first invocation is stored.
C10_Witness ==
    /\ pc = "done" /\ assigned
    /\ Len(opt_calls) = 2
    /\ Len(opt_calls[1].result) = 1 /\ Len(opt_calls[2].result) = 1
    /\ Merged[1].latency = Merged[2].latency
    /\ Merged[2].model # NoModel
    /\ get_result = Some(Merged[1].model)

\* C11: when a call of execute has returned, get_result reflects that call:
\* it returns the model the call selected, and None when the call ended with
\* the warning that no optimized model was created, whatever an earlier call
\* on the same instance had stored.
C11_ResultReflectsLastRun ==
    (pc = "done" /\ outcome = "returned" /\ Selected)
        => /\ assigned => get_result = Some(Best(optimized_models).model)
           /\ warned => get_result = None

\* C11 restricted to the calls that select a candidate: get_result returns
\* the model that call selected.
C11_SelectedRunIsReflected ==
    (pc = "done" /\ outcome = "returned" /\ Selected /\ assigned)
        => get_result = Some(Best(optimized_models).model)

====
